---- MODULE Spec2Model ----
(***************************************************************************)
(* State-machine model of mcprobe's conversation orchestrator              *)
(* (src/src/mcprobe/orchestrator/orchestrator.py): ConversationOrchestrator *)
(* .run, ._run_conversation and ._detect_loop, together with the replies    *)
(* and failures of its three collaborators (agent under test, synthetic     *)
(* user, judge).                                                            *)
(*                                                                          *)
(* Strings are modelled by small integers: message texts are ids >= 1 and   *)
(* 0 is the empty string "".                                                *)
(***************************************************************************)
EXTENDS Integers, Sequences, FiniteSets, TLC

VARIABLES
    pc,                  \* position of the caller / run coroutine
    run_no,              \* number of run() calls made on this orchestrator
    turns,               \* _run_conversation local: turns
    all_tool_calls,      \* _run_conversation local: all_tool_calls
    total_tokens,        \* _run_conversation local: total_tokens
    max_turns,           \* _run_conversation local: max_turns
    termination_reason,  \* _run_conversation local: termination_reason
    final_answer,        \* _run_conversation local: final_answer
    current_user_message,\* _run_conversation local: current_user_message
    turn_count,          \* _run_conversation local: turn_count
    agent_response,      \* _run_conversation local: agent_response
    conversation_result, \* run local: conversation_result (None until built)
    out,                 \* what the caller of run() has received
    calls,               \* history: collaborator calls of the current run()
    exit_path,           \* history: how the while loop of this run was left
    ended,               \* history: how each finished run() call ended
    inflight,            \* collaborator calls issued and not yet returned
    detect,              \* input and result of a direct _detect_loop call
    pair,                \* two orchestrators running concurrently
    agent,               \* a SimpleLLMAgent exercised on its own
    su,                  \* a SyntheticUserLLM exercised on its own
    disk                 \* the results directory of ResultStorage and ResultLoader

vars == <<pc, run_no, turns, all_tool_calls, total_tokens,
          max_turns, termination_reason, final_answer, current_user_message,
          turn_count, agent_response, conversation_result, out, calls,
          exit_path, ended, inflight, detect, pair, agent, su, disk>>

\* the locals of _run_conversation and run
locals == <<turns, all_tool_calls, total_tokens, max_turns, termination_reason,
            final_answer, current_user_message, turn_count, agent_response,
            conversation_result, exit_path>>

----------------------------------------------------------------------------
\* Bounds of the model

\* largest scenario.synthetic_user.max_turns tried
MaxTurnsBound == 3
\* number of run() calls made on one orchestrator
MaxRuns == 2
\* number of distinct replies the agent under test can give
NumAgentReplies == 2
\* number of distinct messages the synthetic user can send
NumUserReplies == 2
\* longest transcript handed to a direct _detect_loop call
MaxDetectLen == 7

----------------------------------------------------------------------------
\* Data model (models/conversation.py)

CRITERIA_MET == "criteria_met"
MAX_TURNS == "max_turns"
ERROR == "error"
LOOP_DETECTED == "loop_detected"

TerminationReason == {CRITERIA_MET, MAX_TURNS, ERROR, LOOP_DETECTED}

\* the empty string
EmptyStr == 0

\* ToolCall: the k-th tool call reported in the agent's i-th canned reply
ToolCall(i, k, r) == [tool_name |-> 10 * i + k, run |-> r]

\* AgentResponse: the agent's i-th canned reply, produced during run r;
\* reply 1 reports no tool call, reply i reports 2(i-1) of them
\* (tool_calls=[] for SimpleLLMAgent); metadata.usage is the agent's own
\* token usage (simple.py:79-82)
AgentResponse(i, r) ==
    [message |-> i,
     tool_calls |-> [k \in 1..(2 * (i - 1)) |-> ToolCall(i, k, r)],
     usage |-> i]

NoResponse == [message |-> EmptyStr, tool_calls |-> <<>>, usage |-> 0]

\* UserResponse: the synthetic user's j-th canned reply; reply j reports
\* j-1 tokens, so a reply with tokens_used = 0 (the field's default) exists
UserResponse(j) == [message |-> j, tokens_used |-> j - 1]

\* ConversationTurn appended for a user message (tool_calls=[]); the field
\* run stands for the timestamp: the run() call during which it was recorded
\* faulty variant of UserTurn: the role literal of the assistant turn
UserTurnWrongRole(c, r) ==
    [role |-> "assistant", content |-> c, tool_calls |-> <<>>, run |-> r]

UserTurn(c, r) ==
    [role |-> "user", content |-> c, tool_calls |-> <<>>, run |-> r]

\* ConversationTurn appended for an agent reply
AssistantTurn(resp, r) ==
    [role |-> "assistant", content |-> resp.message,
     tool_calls |-> resp.tool_calls, run |-> r]

\* Python's None for a ConversationResult not (yet) built
None ==
    [built |-> FALSE, turns |-> <<>>, final_answer |-> EmptyStr,
     total_tool_calls |-> <<>>, total_tokens |-> 0,
     termination_reason |-> "none"]

ConversationResult(tn, fa, atc, tk, reason) ==
    [built |-> TRUE, turns |-> tn, final_answer |-> fa,
     total_tool_calls |-> atc, total_tokens |-> tk,
     termination_reason |-> reason]

NoJudgment == [built |-> FALSE, passed |-> FALSE]
JudgmentResult(p) == [built |-> TRUE, passed |-> p]

\* what the caller of run() holds
Pending == [kind |-> "pending", exc |-> "none",
            conversation_result |-> None, judgment_result |-> NoJudgment]
Returned(cr, jr) == [kind |-> "return", exc |-> "none",
                     conversation_result |-> cr, judgment_result |-> jr]
Raised(e) == [kind |-> "raise", exc |-> e,
              conversation_result |-> None, judgment_result |-> NoJudgment]

\* SyntheticUserLLM._config, fixed at construction: the scenario's
\* synthetic_user section (initial_query is one of the user's messages)
InitialQueryText == 1
su_config == [initial_query |-> InitialQueryText]

\* exceptions the collaborators raise
AgentErrors == {"OrchestrationError", "Exception"}
JudgeErrors == {"JudgmentError"}
UserErrors == {"OrchestrationError"}

\* one entry of the call history: the operation, whether it returned (ok) or
\* raised, its argument, its return value, and refs: the mutable locals of
\* _run_conversation that the argument is (the object itself, not a copy)
CallRefs(op, ok, arg, ret, refs) ==
    [op |-> op, ok |-> ok, arg |-> arg, ret |-> ret, refs |-> refs]

\* faulty variant of Call: the synthetic user is handed the running token
\* total along with the agent's message
CallLeaksTokens(op, ok, arg, ret) ==
    CallRefs(op, ok, arg, ret, IF op = "respond" THEN {"total_tokens"} ELSE {})

\* a call whose arguments are immutable values (strings, nothing)
Call(op, ok, arg, ret) == CallRefs(op, ok, arg, ret, {})

\* the collaborator call the run coroutine is suspended in (or executing) at
\* each position
Awaited(p) ==
    CASE p = "reset_agent" -> {"agent.reset"}
      [] p = "reset_user" -> {"user.reset"}
      [] p = "seed" -> {"get_initial_query"}
      [] p = "send" -> {"send_message"}
      [] p = "check" -> {"check_criteria"}
      [] p = "respond" -> {"respond"}
      [] p = "evaluate" -> {"evaluate"}
      [] OTHER -> {}

\* faulty variant of AwaitNext: the next call is issued without waiting for
\* the pending one (a task is created where the code awaits)
AwaitNextNoWait(op) == inflight' = inflight \cup Awaited(pc')

\* await: the call op has returned or raised, and only then the call of the
\* new position pc' is issued
AwaitNext(op) == inflight' = (inflight \ {op}) \cup Awaited(pc')

----------------------------------------------------------------------------
\* _detect_loop (orchestrator.py:192-215)

min_turns_for_loop == 4
loop_detection_window == 3

\* [t.content for t in turns if t.role == "user"]
UserMessages(t) ==
    LET us == SelectSeq(t, LAMBDA x : x.role = "user")
    IN [i \in 1..Len(us) |-> us[i].content]

\* user_messages[-loop_detection_window:]
RecentMessages(um) ==
    [i \in 1..loop_detection_window |-> um[Len(um) - loop_detection_window + i]]

\* faulty variant of DetectLoop: the minimum-turn gate is set at 6 turns
DetectLoopLateGate(t) ==
    IF Len(t) < min_turns_for_loop + 2
    THEN FALSE
    ELSE LET um == UserMessages(t)
         IN IF Len(um) < loop_detection_window
            THEN FALSE
            ELSE LET recent == RecentMessages(um)
                 IN Cardinality({recent[i] : i \in 1..Len(recent)}) = 1

\* faulty variant of DetectLoop: a window of 2 user messages
DetectLoopShortWindow(t) ==
    IF Len(t) < min_turns_for_loop
    THEN FALSE
    ELSE LET um == UserMessages(t)
         IN IF Len(um) < 2
            THEN FALSE
            ELSE um[Len(um)] = um[Len(um) - 1]

DetectLoop(t) ==
    IF Len(t) < min_turns_for_loop
    THEN FALSE
    ELSE LET um == UserMessages(t)
         IN IF Len(um) < loop_detection_window
            THEN FALSE
            ELSE LET recent == RecentMessages(um)
                 IN Cardinality({recent[i] : i \in 1..Len(recent)}) = 1

----------------------------------------------------------------------------
\* Pieces of _run_conversation

\* while turn_count < max_turns (line 110)
\* faulty variant of WhileCond: the loop runs for twice the budget
WhileCondTwice(tc, mt) == tc < 2 * mt

\* faulty variant of WhileCond: <= for <
WhileCondOffByOne(tc, mt) == tc <= mt

WhileCond(tc, mt) == tc < mt

\* total_tokens += user_response.tokens_used (line 154)
\* faulty variant of AccumulateTokens: = for +=
AccumulateTokensOverwrite(total, ur) == ur.tokens_used

AccumulateTokens(total, ur) == total + ur.tokens_used

\* all_tool_calls.extend(agent_response.tool_calls) (line 131)
\* faulty variant of ExtendToolCalls: assignment for extend
ExtendToolCallsOverwrite(atc, resp) == resp.tool_calls

ExtendToolCalls(atc, resp) == atc \o resp.tool_calls

\* raise OrchestrationError(msg) from e (lines 118, 138, 151)
OrchestrationError(e) == "OrchestrationError"

\* for turn in reversed(turns): if turn.role == "assistant": ... break
\* (lines 176-179); d is the value final_answer keeps when none is found
\* faulty variant of LastAssistantContent: the transcript is searched
\* forwards, so the first assistant turn is found
LastAssistantContentForwards(t, d) ==
    LET as == {i \in DOMAIN t : t[i].role = "assistant"}
    IN IF as = {}
       THEN d
       ELSE t[CHOOSE i \in as : \A n \in as : i <= n].content

RECURSIVE LastAssistantContent(_, _)
LastAssistantContent(t, d) ==
    IF t = <<>>
    THEN d
    ELSE IF t[Len(t)].role = "assistant"
         THEN t[Len(t)].content
         ELSE LastAssistantContent(SubSeq(t, 1, Len(t) - 1), d)

\* lines 173-190: the code after the while loop, building the result
\* faulty variant of Finish: lines 174-179 missing, final_answer keeps the
\* value the loop left in it
FinishNoSearch(reason, fa, tn, atc, tk, path) ==
    /\ final_answer' = fa
    /\ conversation_result' = ConversationResult(tn, fa, atc, tk, reason)
    /\ exit_path' = path
    /\ pc' = "evaluate"

Finish(reason, fa, tn, atc, tk, path) ==
    LET fa2 == IF reason = MAX_TURNS /\ tn # <<>>
               THEN LastAssistantContent(tn, fa)
               ELSE fa
    IN /\ final_answer' = fa2
       /\ conversation_result' = ConversationResult(tn, fa2, atc, tk, reason)
       /\ exit_path' = path
       /\ pc' = "evaluate"

\* lines 110-111: the loop head, reached from the seeding and from the end of
\* the loop body
WhileHead(tc, tn, atc, tk) ==
    IF WhileCond(tc, max_turns)
    THEN /\ turn_count' = tc + 1
         /\ pc' = "send"
         /\ UNCHANGED <<termination_reason, final_answer, conversation_result,
                        exit_path>>
    ELSE /\ turn_count' = tc
         /\ UNCHANGED termination_reason
         /\ Finish(termination_reason, final_answer, tn, atc, tk, "budget")

\* an exception leaves run(): the caller receives it and no result
Raise(e) ==
    /\ pc' = "idle"
    /\ out' = Raised(e)
    /\ ended' = Append(ended, "raise")

----------------------------------------------------------------------------
\* Initial state: an orchestrator just constructed around its collaborators

NoDetect == [turns |-> <<>>, called |-> FALSE, result |-> FALSE]

\* no SimpleLLMAgent, SyntheticUserLLM or results directory is exercised
NoAgent == [exists |-> FALSE]
NoUser == [exists |-> FALSE]
NoDisk == [exists |-> FALSE]

\* no pair of concurrent orchestrators exists
NoPair == [pc |-> <<>>, scr |-> <<>>, frame |-> <<>>, result |-> <<>>]

Init ==
    /\ pc = "idle"
    /\ run_no = 0
    /\ turns = <<>>
    /\ all_tool_calls = <<>>
    /\ total_tokens = 0
    /\ max_turns = 1
    /\ termination_reason = MAX_TURNS
    /\ final_answer = EmptyStr
    /\ current_user_message = EmptyStr
    /\ turn_count = 0
    /\ agent_response = NoResponse
    /\ conversation_result = None
    /\ out = Pending
    /\ calls = <<>>
    /\ exit_path = "none"
    /\ ended = <<>>
    /\ inflight = {}
    /\ detect = NoDetect
    /\ pair = NoPair
    /\ agent = NoAgent
    /\ su = NoUser
    /\ disk = NoDisk

----------------------------------------------------------------------------
\* run (orchestrator.py:46-68)

\* the caller calls run(scenario) on an idle orchestrator
\* faulty variant of Run: lines 59-60 missing
RunSkipsReset ==
    /\ pc = "idle"
    /\ run_no < MaxRuns
    /\ pc' = "begin"
    /\ run_no' = run_no + 1
    /\ out' = Pending
    /\ calls' = <<>>
    /\ UNCHANGED <<locals, ended, detect, pair, agent, su, disk>>
    /\ AwaitNext("none")

Run ==
    /\ pc = "idle"
    /\ run_no < MaxRuns
    /\ pc' = "reset_agent"
    /\ run_no' = run_no + 1
    /\ out' = Pending
    /\ calls' = <<>>
    /\ UNCHANGED <<locals, ended, detect, pair, agent, su, disk>>
    /\ AwaitNext("none")

\* await self._agent.reset() (line 59)
AgentReset ==
    /\ pc = "reset_agent"
    /\ calls' = Append(calls, Call("agent.reset", TRUE, 0, 0))
    /\ pc' = "reset_user"
    /\ UNCHANGED <<run_no, locals, out, ended, detect, pair, agent, su, disk>>
    /\ AwaitNext("agent.reset")

\* agent.reset() raises: nothing catches it in run
AgentResetFails(e) ==
    /\ pc = "reset_agent"
    /\ calls' = Append(calls, Call("agent.reset", FALSE, 0, 0))
    /\ Raise(e)
    /\ UNCHANGED <<run_no, locals, detect, pair, agent, su, disk>>
    /\ AwaitNext("agent.reset")

\* self._synthetic_user.reset() (line 60)
SyntheticUserReset ==
    /\ pc = "reset_user"
    /\ calls' = Append(calls, Call("user.reset", TRUE, 0, 0))
    /\ pc' = "begin"
    /\ UNCHANGED <<run_no, locals, out, ended, detect, pair, agent, su, disk>>
    /\ AwaitNext("user.reset")

----------------------------------------------------------------------------
\* _run_conversation (orchestrator.py:70-190)

\* lines 86-92: the locals are created. The scenario argument of run is
\* immutable, so its synthetic_user.max_turns (an int >= 1, scenario.py:58)
\* is drawn here, where the code reads it (line 90)
\* faulty variant of RunConversationBegin: turns, all_tool_calls and
\* total_tokens kept on the instance instead of created per call
RunConversationBeginKeepsState(mt) ==
    /\ pc = "begin"
    /\ max_turns' = mt
    /\ termination_reason' = MAX_TURNS
    /\ final_answer' = EmptyStr
    /\ current_user_message' = EmptyStr
    /\ turn_count' = 0
    /\ agent_response' = NoResponse
    /\ conversation_result' = None
    /\ exit_path' = "none"
    /\ pc' = "seed"
    /\ UNCHANGED <<turns, all_tool_calls, total_tokens>>
    /\ UNCHANGED <<run_no, out, calls, ended, detect, pair, agent, su, disk>>
    /\ AwaitNext("none")

RunConversationBegin(mt) ==
    /\ pc = "begin"
    /\ turns' = <<>>
    /\ all_tool_calls' = <<>>
    /\ total_tokens' = 0
    /\ max_turns' = mt
    /\ termination_reason' = MAX_TURNS
    /\ final_answer' = EmptyStr
    /\ current_user_message' = EmptyStr
    /\ turn_count' = 0
    /\ agent_response' = NoResponse
    /\ conversation_result' = None
    /\ exit_path' = "none"
    /\ pc' = "seed"
    /\ UNCHANGED <<run_no, out, calls, ended, detect, pair, agent, su, disk>>
    /\ AwaitNext("none")

\* lines 94-111: get_initial_query returns self._config.initial_query
\* (user.py:51-57); the seed turn is appended and the loop is entered
GetInitialQuery ==
    /\ pc = "seed"
    /\ LET initial_query == su_config.initial_query
           tn == Append(turns, UserTurn(initial_query, run_no))
       IN /\ calls' = Append(calls, Call("get_initial_query", TRUE, 0, initial_query))
          /\ turns' = tn
          /\ current_user_message' = initial_query
          /\ WhileHead(0, tn, all_tool_calls, total_tokens)
    /\ UNCHANGED <<run_no, all_tool_calls, total_tokens,
                   max_turns, agent_response, out, ended, detect, pair, agent, su, disk>>
    /\ AwaitNext("get_initial_query")

\* lines 113-131: the agent replies with its i-th reply
\* faulty variant of SendMessage: the assistant turn is inserted at the front
\* of the turn list
SendMessagePrepends(i) ==
    /\ pc = "send"
    /\ LET resp == AgentResponse(i, run_no)
       IN /\ calls' = Append(calls, Call("send_message", TRUE,
                                         current_user_message, resp.message))
          /\ agent_response' = resp
          /\ turns' = <<AssistantTurn(resp, run_no)>> \o turns
          /\ all_tool_calls' = ExtendToolCalls(all_tool_calls, resp)
    /\ pc' = "check"
    /\ UNCHANGED <<run_no, total_tokens, max_turns,
                   termination_reason, final_answer, current_user_message,
                   turn_count, conversation_result, out, exit_path, ended,
                   detect, pair, agent, su, disk>>
    /\ AwaitNext("send_message")
\* faulty variant of SendMessage: the criteria check is skipped and the
\* synthetic user is asked at once
SendMessageSkipsCheck(i) ==
    /\ pc = "send"
    /\ LET resp == AgentResponse(i, run_no)
       IN /\ calls' = Append(calls, Call("send_message", TRUE,
                                         current_user_message, resp.message))
          /\ agent_response' = resp
          /\ turns' = Append(turns, AssistantTurn(resp, run_no))
          /\ all_tool_calls' = ExtendToolCalls(all_tool_calls, resp)
    /\ pc' = "respond"
    /\ UNCHANGED <<run_no, total_tokens, max_turns,
                   termination_reason, final_answer, current_user_message,
                   turn_count, conversation_result, out, exit_path, ended,
                   detect, pair, agent, su, disk>>
    /\ AwaitNext("send_message")
SendMessage(i) ==
    /\ pc = "send"
    /\ LET resp == AgentResponse(i, run_no)
       IN /\ calls' = Append(calls, Call("send_message", TRUE,
                                         current_user_message, resp.message))
          /\ agent_response' = resp
          /\ turns' = Append(turns, AssistantTurn(resp, run_no))
          /\ all_tool_calls' = ExtendToolCalls(all_tool_calls, resp)
    /\ pc' = "check"
    /\ UNCHANGED <<run_no, total_tokens, max_turns,
                   termination_reason, final_answer, current_user_message,
                   turn_count, conversation_result, out, exit_path, ended,
                   detect, pair, agent, su, disk>>
    /\ AwaitNext("send_message")

\* lines 114-118: send_message raises e
\* faulty variant of SendMessageFails: the failure is swallowed and the call
\* issued again
SendMessageFailsRetry(e) ==
    /\ pc = "send"
    /\ calls' = Append(calls, Call("send_message", FALSE, current_user_message, 0))
    /\ Len(calls) < 2 * MaxTurnsBound + 4
    /\ UNCHANGED <<pc, run_no, locals, out, ended, detect, pair, agent, su, disk>>
    /\ AwaitNext("send_message")

SendMessageFails(e) ==
    /\ pc = "send"
    /\ calls' = Append(calls, Call("send_message", FALSE, current_user_message, 0))
    /\ Raise(OrchestrationError(e))
    /\ UNCHANGED <<run_no, locals, detect, pair, agent, su, disk>>
    /\ AwaitNext("send_message")

\* lines 133-144: the judge's criteria check returns all_criteria_met = met
\* faulty variant of CheckCriteria: on the last iteration the conversation
\* ends without asking the synthetic user for a reply
CheckCriteriaSkipsLastReply(met) ==
    /\ pc = "check"
    /\ calls' = Append(calls, CallRefs("check_criteria", TRUE, turns,
                                       IF met THEN 1 ELSE 0, {"turns"}))
    /\ IF met
       THEN /\ termination_reason' = CRITERIA_MET
            /\ Finish(CRITERIA_MET, agent_response.message, turns,
                      all_tool_calls, total_tokens, "criteria")
       ELSE IF turn_count = max_turns
            THEN /\ UNCHANGED termination_reason
                 /\ Finish(termination_reason, final_answer, turns,
                           all_tool_calls, total_tokens, "budget")
            ELSE /\ pc' = "respond"
                 /\ UNCHANGED <<termination_reason, final_answer,
                                conversation_result, exit_path>>
    /\ UNCHANGED <<run_no, turns, all_tool_calls,
                   total_tokens, max_turns, current_user_message, turn_count,
                   agent_response, out, ended, detect, pair, agent, su, disk>>
    /\ AwaitNext("check_criteria")

\* faulty variant of CheckCriteria: lines 141-144 missing, the conversation
\* goes on although every criterion is met
CheckCriteriaNoBreak(met) ==
    /\ pc = "check"
    /\ calls' = Append(calls, CallRefs("check_criteria", TRUE, turns,
                                       IF met THEN 1 ELSE 0, {"turns"}))
    /\ pc' = "respond"
    /\ UNCHANGED <<termination_reason, final_answer, conversation_result,
                   exit_path>>
    /\ UNCHANGED <<run_no, turns, all_tool_calls,
                   total_tokens, max_turns, current_user_message, turn_count,
                   agent_response, out, ended, detect, pair, agent, su, disk>>
    /\ AwaitNext("check_criteria")

CheckCriteria(met) ==
    /\ pc = "check"
    /\ calls' = Append(calls, CallRefs("check_criteria", TRUE, turns,
                                       IF met THEN 1 ELSE 0, {"turns"}))
    /\ IF met
       THEN /\ termination_reason' = CRITERIA_MET
            /\ Finish(CRITERIA_MET, agent_response.message, turns,
                      all_tool_calls, total_tokens, "criteria")
       ELSE /\ pc' = "respond"
            /\ UNCHANGED <<termination_reason, final_answer,
                           conversation_result, exit_path>>
    /\ UNCHANGED <<run_no, turns, all_tool_calls,
                   total_tokens, max_turns, current_user_message, turn_count,
                   agent_response, out, ended, detect, pair, agent, su, disk>>
    /\ AwaitNext("check_criteria")

\* lines 134-138: check_criteria raises e
CheckCriteriaFails(e) ==
    /\ pc = "check"
    /\ calls' = Append(calls, CallRefs("check_criteria", FALSE, turns, 0, {"turns"}))
    /\ Raise(OrchestrationError(e))
    /\ UNCHANGED <<run_no, locals, detect, pair, agent, su, disk>>
    /\ AwaitNext("check_criteria")

\* lines 169-171: the loop detector fired
\* faulty variant of LoopBreak: line 169 missing
LoopBreakKeepsReason(tn, tk) ==
    /\ UNCHANGED termination_reason
    /\ UNCHANGED turn_count
    /\ Finish(termination_reason, agent_response.message, tn, all_tool_calls,
              tk, "loop")

LoopBreak(tn, tk) ==
    /\ termination_reason' = LOOP_DETECTED
    /\ UNCHANGED turn_count
    /\ Finish(LOOP_DETECTED, agent_response.message, tn, all_tool_calls, tk,
              "loop")

\* lines 146-171 and back to 110: the synthetic user answers with its j-th
\* reply
\* faulty variant of Respond: line 165 missing, the agent is sent the
\* previous user message again
RespondKeepsMessage(j) ==
    /\ pc = "respond"
    /\ LET user_response == UserResponse(j)
           tk == AccumulateTokens(total_tokens, user_response)
           tn == Append(turns, UserTurn(user_response.message, run_no))
       IN /\ calls' = Append(calls, Call("respond", TRUE, agent_response.message,
                                         user_response))
          /\ total_tokens' = tk
          /\ turns' = tn
          /\ UNCHANGED current_user_message
          /\ IF DetectLoop(tn)
             THEN LoopBreak(tn, tk)
             ELSE WhileHead(turn_count, tn, all_tool_calls, tk)
    /\ UNCHANGED <<run_no, all_tool_calls, max_turns,
                   agent_response, out, ended, detect, pair, agent, su, disk>>
    /\ AwaitNext("respond")

\* faulty variant of Respond: the turn budget is tested before the loop
\* detector is asked
RespondBudgetFirst(j) ==
    /\ pc = "respond"
    /\ LET user_response == UserResponse(j)
           tk == AccumulateTokens(total_tokens, user_response)
           tn == Append(turns, UserTurn(user_response.message, run_no))
       IN /\ calls' = Append(calls, Call("respond", TRUE, agent_response.message,
                                         user_response))
          /\ total_tokens' = tk
          /\ turns' = tn
          /\ current_user_message' = user_response.message
          /\ IF WhileCond(turn_count, max_turns) /\ DetectLoop(tn)
             THEN LoopBreak(tn, tk)
             ELSE WhileHead(turn_count, tn, all_tool_calls, tk)
    /\ UNCHANGED <<run_no, all_tool_calls, max_turns,
                   agent_response, out, ended, detect, pair, agent, su, disk>>
    /\ AwaitNext("respond")

\* faulty variant of Respond: lines 167-171 missing, the loop detector is
\* never asked
RespondNoLoopCheck(j) ==
    /\ pc = "respond"
    /\ LET user_response == UserResponse(j)
           tk == AccumulateTokens(total_tokens, user_response)
           tn == Append(turns, UserTurn(user_response.message, run_no))
       IN /\ calls' = Append(calls, Call("respond", TRUE, agent_response.message,
                                         user_response))
          /\ total_tokens' = tk
          /\ turns' = tn
          /\ current_user_message' = user_response.message
          /\ WhileHead(turn_count, tn, all_tool_calls, tk)
    /\ UNCHANGED <<run_no, all_tool_calls, max_turns,
                   agent_response, out, ended, detect, pair, agent, su, disk>>
    /\ AwaitNext("respond")
Respond(j) ==
    /\ pc = "respond"
    /\ LET user_response == UserResponse(j)
           tk == AccumulateTokens(total_tokens, user_response)
           tn == Append(turns, UserTurn(user_response.message, run_no))
       IN /\ calls' = Append(calls, Call("respond", TRUE, agent_response.message,
                                         user_response))
          /\ total_tokens' = tk
          /\ turns' = tn
          /\ current_user_message' = user_response.message
          /\ IF DetectLoop(tn)
             THEN LoopBreak(tn, tk)
             ELSE WhileHead(turn_count, tn, all_tool_calls, tk)
    /\ UNCHANGED <<run_no, all_tool_calls, max_turns,
                   agent_response, out, ended, detect, pair, agent, su, disk>>
    /\ AwaitNext("respond")

\* lines 147-151: respond raises e
RespondFails(e) ==
    /\ pc = "respond"
    /\ calls' = Append(calls, Call("respond", FALSE, agent_response.message, 0))
    /\ Raise(OrchestrationError(e))
    /\ UNCHANGED <<run_no, locals, detect, pair, agent, su, disk>>
    /\ AwaitNext("respond")

----------------------------------------------------------------------------
\* run, continued (orchestrator.py:65-68)

\* faulty variant of Evaluate: the judge is asked a second time before run
\* returns
EvaluateTwice(passed) ==
    /\ pc = "evaluate"
    /\ calls' = calls \o <<Call("evaluate", TRUE, conversation_result, 0),
                           Call("evaluate", TRUE, conversation_result, 0)>>
    /\ out' = Returned(conversation_result, JudgmentResult(passed))
    /\ ended' = Append(ended, "return")
    /\ pc' = "idle"
    /\ UNCHANGED <<run_no, locals, detect, pair, agent, su, disk>>
    /\ AwaitNext("evaluate")

\* judge.evaluate returns a JudgmentResult; run returns the pair
Evaluate(passed) ==
    /\ pc = "evaluate"
    /\ calls' = Append(calls, Call("evaluate", TRUE, conversation_result, 0))
    /\ out' = Returned(conversation_result, JudgmentResult(passed))
    /\ ended' = Append(ended, "return")
    /\ pc' = "idle"
    /\ UNCHANGED <<run_no, locals, detect, pair, agent, su, disk>>
    /\ AwaitNext("evaluate")

\* judge.evaluate raises JudgmentError (judge.py:103-109); run has no
\* try/except around it, so the caller receives it as it is
\* variant of EvaluateFails: run wraps the failure in OrchestrationError
EvaluateFailsWrapped ==
    /\ pc = "evaluate"
    /\ calls' = Append(calls, Call("evaluate", FALSE, conversation_result, 0))
    /\ Raise(OrchestrationError("JudgmentError"))
    /\ UNCHANGED <<run_no, locals, detect, pair, agent, su, disk>>
    /\ AwaitNext("evaluate")

EvaluateFails ==
    /\ pc = "evaluate"
    /\ calls' = Append(calls, Call("evaluate", FALSE, conversation_result, 0))
    /\ Raise("JudgmentError")
    /\ UNCHANGED <<run_no, locals, detect, pair, agent, su, disk>>
    /\ AwaitNext("evaluate")

----------------------------------------------------------------------------
Next ==
    \/ Run
    \/ AgentReset
    \/ \E e \in AgentErrors : AgentResetFails(e)
    \/ SyntheticUserReset
    \/ \E mt \in 1..MaxTurnsBound : RunConversationBegin(mt)
    \/ GetInitialQuery
    \/ \E i \in 1..NumAgentReplies : SendMessage(i)
    \/ \E e \in AgentErrors : SendMessageFails(e)
    \/ \E met \in BOOLEAN : CheckCriteria(met)
    \/ \E e \in JudgeErrors : CheckCriteriaFails(e)
    \/ \E j \in 1..NumUserReplies : Respond(j)
    \/ \E e \in UserErrors : RespondFails(e)
    \/ \E passed \in BOOLEAN : Evaluate(passed)
    \/ EvaluateFails

Spec == Init /\ [][Next]_vars

----------------------------------------------------------------------------
\* _detect_loop called on its own, on every transcript of the shape the
\* orchestrator builds (a user turn first, roles alternating) up to
\* MaxDetectLen turns

Transcript(f) ==
    [i \in 1..Len(f) |->
        IF i % 2 = 1
        THEN UserTurn(f[i], 1)
        ELSE AssistantTurn([message |-> f[i], tool_calls |-> <<>>], 1)]

Transcripts ==
    {Transcript(f) : f \in UNION {[1..n -> 1..NumUserReplies] : n \in 0..MaxDetectLen}}

InitDetect ==
    /\ pc = "detect"
    /\ run_no = 0
    /\ turns = <<>>
    /\ all_tool_calls = <<>>
    /\ total_tokens = 0
    /\ max_turns = 1
    /\ termination_reason = MAX_TURNS
    /\ final_answer = EmptyStr
    /\ current_user_message = EmptyStr
    /\ turn_count = 0
    /\ agent_response = NoResponse
    /\ conversation_result = None
    /\ out = Pending
    /\ calls = <<>>
    /\ exit_path = "none"
    /\ ended = <<>>
    /\ inflight = {}
    /\ detect \in {[turns |-> t, called |-> FALSE, result |-> FALSE] : t \in Transcripts}
    /\ pair = NoPair
    /\ agent = NoAgent
    /\ su = NoUser
    /\ disk = NoDisk

DetectLoopCall ==
    /\ pc = "detect"
    /\ ~detect.called
    /\ detect' = [detect EXCEPT !.called = TRUE, !.result = DetectLoop(detect.turns)]
    /\ UNCHANGED <<pc, run_no, locals, out, calls, ended, inflight, pair, agent, su, disk>>

NextDetect == DetectLoopCall

SpecDetect == InitDetect /\ [][NextDetect]_vars

----------------------------------------------------------------------------
\* Two orchestrators, each constructed around its own agent, synthetic user
\* and judge, each executing one run call; their steps interleave freely.
\* The collaborators of an orchestrator belong to it alone, so what they
\* reply depends only on that orchestrator's conversation: it is fixed by a
\* script (the scenario's max_turns, the agent turn after which the judge
\* reports the criteria met, 0 for never, and whether the synthetic user
\* keeps repeating the initial query)

Instances == {1, 2}

Scripts ==
    {[max_turns |-> mt, met_at |-> k, repeats |-> b] :
        mt \in 1..MaxTurnsBound, k \in 0..MaxTurnsBound, b \in BOOLEAN}

\* the agent's reply to its tc-th message
ScriptedAgentReply(tc) == ((tc - 1) % NumAgentReplies) + 1

\* the synthetic user's reply
ScriptedUserReply(sc) == IF sc.repeats THEN InitialQueryText ELSE NumUserReplies

\* the locals of one _run_conversation call (lines 86-92, 107-108) and the
\* conversation_result of the run call around it (line 63)
Frame(mt) ==
    [turns |-> <<>>, all_tool_calls |-> <<>>, total_tokens |-> 0,
     max_turns |-> mt, termination_reason |-> MAX_TURNS,
     final_answer |-> EmptyStr, current_user_message |-> EmptyStr,
     turn_count |-> 0, agent_response |-> NoResponse,
     conversation_result |-> None]

\* faulty variant of FrameOf: the conversation state is kept in one place
\* shared by every orchestrator (class-level or module-level state)
FrameOfShared(p) == 1

\* where the conversation state of orchestrator p's run lives: in the locals
\* of its own _run_conversation call; __init__ stores nothing but the three
\* collaborators
FrameOf(p) == p

\* lines 173-190 on a frame
FrameFinish(f, reason, fa) ==
    LET fa2 == IF reason = MAX_TURNS /\ f.turns # <<>>
               THEN LastAssistantContent(f.turns, fa)
               ELSE fa
    IN [pc |-> "evaluate",
        f |-> [f EXCEPT !.termination_reason = reason,
                        !.final_answer = fa2,
                        !.conversation_result =
                            ConversationResult(f.turns, fa2, f.all_tool_calls,
                                               f.total_tokens, reason)]]

\* lines 110-111 on a frame
FrameWhileHead(f) ==
    IF WhileCond(f.turn_count, f.max_turns)
    THEN [pc |-> "send", f |-> [f EXCEPT !.turn_count = f.turn_count + 1]]
    ELSE FrameFinish(f, f.termination_reason, f.final_answer)

\* one step of run (lines 59-68) and _run_conversation (lines 86-190) made by
\* orchestrator p at position pcv on the frame f, its collaborators
\* answering by the script sc
FrameStep(pcv, f, sc, p) ==
    CASE pcv = "reset_agent" -> [pc |-> "reset_user", f |-> f]
      [] pcv = "reset_user" -> [pc |-> "begin", f |-> f]
      [] pcv = "begin" -> [pc |-> "seed", f |-> Frame(sc.max_turns)]
      [] pcv = "seed" ->
            FrameWhileHead([f EXCEPT
                !.turns = Append(f.turns, UserTurn(su_config.initial_query, p)),
                !.current_user_message = su_config.initial_query])
      [] pcv = "send" ->
            LET resp == AgentResponse(ScriptedAgentReply(f.turn_count), p)
            IN [pc |-> "check",
                f |-> [f EXCEPT
                    !.agent_response = resp,
                    !.turns = Append(f.turns, AssistantTurn(resp, p)),
                    !.all_tool_calls = ExtendToolCalls(f.all_tool_calls, resp)]]
      [] pcv = "check" ->
            IF sc.met_at = f.turn_count
            THEN FrameFinish(f, CRITERIA_MET, f.agent_response.message)
            ELSE [pc |-> "respond", f |-> f]
      [] pcv = "respond" ->
            LET user_response == UserResponse(ScriptedUserReply(sc))
                f2 == [f EXCEPT
                    !.total_tokens = AccumulateTokens(f.total_tokens, user_response),
                    !.turns = Append(f.turns, UserTurn(user_response.message, p)),
                    !.current_user_message = user_response.message]
            IN IF DetectLoop(f2.turns)
               THEN FrameFinish(f2, LOOP_DETECTED, f2.agent_response.message)
               ELSE FrameWhileHead(f2)
      [] OTHER -> [pc |-> "done", f |-> f]

\* the ConversationResult that a run with script sc returns when nothing
\* else runs
RECURSIVE RunAlone(_, _, _, _)
RunAlone(pcv, f, sc, p) ==
    IF pcv = "evaluate"
    THEN f.conversation_result
    ELSE LET n == FrameStep(pcv, f, sc, p)
         IN RunAlone(n.pc, n.f, sc, p)

InitPair ==
    /\ pc = "pair"
    /\ run_no = 0
    /\ turns = <<>>
    /\ all_tool_calls = <<>>
    /\ total_tokens = 0
    /\ max_turns = 1
    /\ termination_reason = MAX_TURNS
    /\ final_answer = EmptyStr
    /\ current_user_message = EmptyStr
    /\ turn_count = 0
    /\ agent_response = NoResponse
    /\ conversation_result = None
    /\ out = Pending
    /\ calls = <<>>
    /\ exit_path = "none"
    /\ ended = <<>>
    /\ inflight = {}
    /\ detect = NoDetect
    /\ agent = NoAgent
    /\ su = NoUser
    /\ disk = NoDisk
    /\ \E s1, s2 \in Scripts :
          pair = [pc |-> <<"reset_agent", "reset_agent">>,
                  scr |-> <<s1, s2>>,
                  frame |-> <<Frame(1), Frame(1)>>,
                  result |-> <<None, None>>]

\* orchestrator p makes its next step; at line 68 its run call returns the
\* conversation_result of its frame
PairStep(p) ==
    /\ pc = "pair"
    /\ pair.pc[p] # "done"
    /\ LET k == FrameOf(p)
           n == FrameStep(pair.pc[p], pair.frame[k], pair.scr[p], p)
       IN pair' = [pair EXCEPT
              !.pc[p] = n.pc,
              !.frame[k] = n.f,
              !.result[p] = IF pair.pc[p] = "evaluate"
                            THEN pair.frame[k].conversation_result
                            ELSE @]
    /\ UNCHANGED <<pc, run_no, locals, out, calls, ended, inflight, detect, agent, su, disk>>

NextPair == \E p \in Instances : PairStep(p)

SpecPair == InitPair /\ [][NextPair]_vars

----------------------------------------------------------------------------
\* The state of the orchestrator while one of its collaborators, or the
\* persistence layer, is exercised on its own at position p
Elsewhere(p) ==
    /\ pc = p
    /\ run_no = 0
    /\ turns = <<>>
    /\ all_tool_calls = <<>>
    /\ total_tokens = 0
    /\ max_turns = 1
    /\ termination_reason = MAX_TURNS
    /\ final_answer = EmptyStr
    /\ current_user_message = EmptyStr
    /\ turn_count = 0
    /\ agent_response = NoResponse
    /\ conversation_result = None
    /\ out = Pending
    /\ calls = <<>>
    /\ exit_path = "none"
    /\ ended = <<>>
    /\ inflight = {}
    /\ detect = NoDetect
    /\ pair = NoPair

\* the variables of the orchestrator model
core == <<pc, run_no, locals, out, calls, ended, inflight, detect, pair>>

----------------------------------------------------------------------------
\* SimpleLLMAgent (agents/simple.py)

\* most send_message calls made on one agent
MaxAgentSends == 2

\* Python's None for system_prompt (simple.py:24)
NoneStr == -1

\* the system_prompt argument: None, the empty string or a text
SystemPrompts == {NoneStr, EmptyStr, 1}

\* truth value of a str | None (simple.py:40, 90)
Truthy(s) == s # NoneStr /\ s # EmptyStr

\* providers.base.Message
Message(role, content) == [role |-> role, content |-> content]

\* __init__ (simple.py:34-41); sends and fails count the send_message calls
\* made and those that raised, last names the last operation
SimpleLLMAgent(sp) ==
    [exists |-> TRUE,
     system_prompt |-> sp,
     history |-> IF Truthy(sp) THEN <<Message("system", sp)>> ELSE <<>>,
     sends |-> 0, fails |-> 0, last |-> "init"]

\* send_message (simple.py:56-83), the provider returning reply
SimpleSend(a, m, reply) ==
    [a EXCEPT !.history = Append(Append(@, Message("user", m)),
                                 Message("assistant", reply)),
              !.sends = @ + 1, !.last = "send"]

\* send_message (simple.py:56-65), the provider raising: the user message
\* stays in the history
SimpleSendRaises(a, m) ==
    [a EXCEPT !.history = Append(@, Message("user", m)),
              !.sends = @ + 1, !.fails = @ + 1, !.last = "send"]

\* faulty variant of SimpleReset: lines 89-91 missing
SimpleResetNoPrompt(a) ==
    [a EXCEPT !.history = <<>>, !.last = "reset"]

\* reset (simple.py:85-91)
SimpleReset(a) ==
    LET cleared == <<>>
    IN [a EXCEPT !.history = IF Truthy(a.system_prompt)
                             THEN Append(cleared, Message("system", a.system_prompt))
                             ELSE cleared,
                 !.last = "reset"]

InitAgent ==
    /\ Elsewhere("agent")
    /\ agent \in {SimpleLLMAgent(sp) : sp \in SystemPrompts}
    /\ su = NoUser
    /\ disk = NoDisk

AgentSendMessage(m, reply) ==
    /\ pc = "agent"
    /\ agent.sends < MaxAgentSends
    /\ agent' = SimpleSend(agent, m, reply)
    /\ UNCHANGED <<core, su, disk>>

AgentSendMessageRaises(m) ==
    /\ pc = "agent"
    /\ agent.sends < MaxAgentSends
    /\ agent' = SimpleSendRaises(agent, m)
    /\ UNCHANGED <<core, su, disk>>

AgentResetCall ==
    /\ pc = "agent"
    /\ agent' = SimpleReset(agent)
    /\ UNCHANGED <<core, su, disk>>

NextAgent ==
    \/ \E m \in 1..NumUserReplies, reply \in 1..NumAgentReplies :
          AgentSendMessage(m, reply)
    \/ \E m \in 1..NumUserReplies : AgentSendMessageRaises(m)
    \/ AgentResetCall

SpecAgent == InitAgent /\ [][NextAgent]_vars

----------------------------------------------------------------------------
\* SyntheticUserLLM (synthetic_user/user.py). Messages are sequences of
\* characters here, because respond looks into the text it is given

\* most respond calls made on one synthetic user
MaxUserResponds == 2

\* str.strip() with no argument removes these from both ends
Whitespace == {" ", "\n", "\t"}

RECURSIVE LStrip(_)
LStrip(s) ==
    IF s # <<>> /\ s[1] \in Whitespace THEN LStrip(Tail(s)) ELSE s

RECURSIVE RStrip(_)
RStrip(s) ==
    IF s # <<>> /\ s[Len(s)] \in Whitespace
    THEN RStrip(SubSeq(s, 1, Len(s) - 1))
    ELSE s

\* assistant_message.strip()
Strip(s) == RStrip(LStrip(s))

\* str.endswith for a one-character suffix
EndsWith(s, c) == s # <<>> /\ s[Len(s)] = c

\* the agent messages respond is called with: empty, whitespace only, a
\* statement, a question followed by a blank
AgentMessages ==
    {<<>>, <<" ", "\n", "\t">>, <<"a", ".">>, <<"a", "?", " ">>}

\* the replies of the provider: LLMResponse.content and LLMResponse.usage, a
\* dict that may lack either key (providers/base.py:26-29)
UsageKeys == {"prompt_tokens", "completion_tokens"}

Usages ==
    {[k \in D |-> IF k = "prompt_tokens" THEN 100 ELSE 50] : D \in SUBSET UsageKeys}

LLMResponses == {[content |-> <<"o", "k">>, usage |-> u] : u \in Usages}

\* build_synthetic_user_prompt(config) (user.py:45)
SystemPromptText == <<"p">>

\* the attributes __init__ sets on the instance (user.py:43-49), by name
UserAttributes ==
    {"_provider", "_config", "_system_prompt", "_conversation_history",
     "_questions_asked"}

\* nothing has been called on the synthetic user yet
NoUserCall ==
    [op |-> "init", arg |-> <<>>, generate_calls |-> 0, raised |-> FALSE,
     usage |-> <<>>, message |-> <<>>, tokens_used |-> 0]

\* __init__ (user.py:43-49); self is the instance's attribute dictionary,
\* responds counts the respond calls made and last describes the last call
SyntheticUserLLM ==
    [exists |-> TRUE,
     self |-> [k \in UserAttributes |->
                  CASE k = "_conversation_history" ->
                           <<Message("system", SystemPromptText)>>
                    [] k = "_questions_asked" -> 0
                    [] k = "_system_prompt" -> SystemPromptText
                    [] OTHER -> k],
     responds |-> 0,
     last |-> NoUserCall]

\* lines 77-84 of respond: the assistant message is recorded and counted as a
\* question when it ends with "?"
RespondEnter(self, assistant_message) ==
    [self EXCEPT
        !["_conversation_history"] =
            Append(@, Message("assistant", assistant_message)),
        !["_questions_asked"] =
            IF EndsWith(Strip(assistant_message), "?") THEN @ + 1 ELSE @]

\* lines 141-146 of _generate_response: the reply is recorded and returned
GenerateResponseReturn(self, response) ==
    [self EXCEPT
        !["_conversation_history"] = Append(@, Message("user", response.content))]

\* UserResponse(message=response, is_satisfied=is_satisfied) (user.py:116):
\* UserResponse has no field is_satisfied, and tokens_used, which is not
\* passed, takes its default 0 (models/conversation.py:33-37)
RespondResult(response) == [message |-> response.content, tokens_used |-> 0]

\* reset (user.py:176-181): two attributes are assigned
UserReset(self) ==
    [k \in DOMAIN self \cup {"_conversation_history", "_questions_asked"} |->
        CASE k = "_conversation_history" ->
                 <<Message("system", self["_system_prompt"])>>
          [] k = "_questions_asked" -> 0
          [] OTHER -> self[k]]

InitUser ==
    /\ Elsewhere("user")
    /\ agent = NoAgent
    /\ su = SyntheticUserLLM
    /\ disk = NoDisk

\* respond(assistant_message) with is_final_answer left at False, as the
\* orchestrator calls it (orchestrator.py:148); provider.generate returns
\* response
UserRespond(assistant_message, response) ==
    /\ pc = "user"
    /\ su.responds < MaxUserResponds
    /\ LET entered == RespondEnter(su.self, assistant_message)
           result == RespondResult(response)
       IN su' = [su EXCEPT
              !.self = GenerateResponseReturn(entered, response),
              !.responds = @ + 1,
              !.last = [op |-> "respond", arg |-> assistant_message,
                        generate_calls |-> 1, raised |-> FALSE,
                        usage |-> response.usage,
                        message |-> result.message,
                        tokens_used |-> result.tokens_used]]
    /\ UNCHANGED <<core, agent, disk>>

\* respond, provider.generate raising: OrchestrationError leaves
\* _generate_response (user.py:135-139) and respond
UserRespondRaises(assistant_message) ==
    /\ pc = "user"
    /\ su.responds < MaxUserResponds
    /\ su' = [su EXCEPT
          !.self = RespondEnter(su.self, assistant_message),
          !.responds = @ + 1,
          !.last = [op |-> "respond", arg |-> assistant_message,
                    generate_calls |-> 1, raised |-> TRUE,
                    usage |-> <<>>, message |-> <<>>, tokens_used |-> 0]]
    /\ UNCHANGED <<core, agent, disk>>

UserResetCall ==
    /\ pc = "user"
    /\ su' = [su EXCEPT
          !.self = UserReset(su.self),
          !.last = [NoUserCall EXCEPT !.op = "reset"]]
    /\ UNCHANGED <<core, agent, disk>>

NextUser ==
    \/ \E m \in AgentMessages, response \in LLMResponses : UserRespond(m, response)
    \/ \E m \in AgentMessages : UserRespondRaises(m)
    \/ UserResetCall

SpecUser == InitUser /\ [][NextUser]_vars

----------------------------------------------------------------------------
\* ResultStorage.save and ResultLoader.load (persistence/storage.py,
\* persistence/loader.py) on one results directory. Run ids, timestamps and
\* file names are sequences of characters

\* most save calls made on one results directory
MaxSaves == 2

\* short_id = result.run_id[:8] (storage.py:38), run_id[:8] (loader.py:52)
ShortIdLen == 8

\* s[:n]
Prefix(s, n) == SubSeq(s, 1, IF Len(s) < n THEN Len(s) ELSE n)

\* sub in s, for strings
IsSubstring(sub, s) ==
    \E i \in 0..(Len(s) - Len(sub)) : SubSeq(s, i + 1, i + Len(sub)) = sub

\* the run ids of the results saved and asked for: UUIDs (models.py:18),
\* shortened here to their first ten characters; two of them begin with
\* the same eight hexadecimal digits
RunIds ==
    {<<"a", "1", "a", "1", "a", "1", "a", "1", "-", "c">>,
     <<"a", "1", "a", "1", "a", "1", "a", "1", "-", "d">>,
     <<"b", "2", "b", "2", "b", "2", "b", "2", "-", "c">>}

\* result.timestamp.strftime("%Y-%m-%dT%H-%M-%S") (storage.py:37) of the
\* two moments at which results are produced
TimestampStrs ==
    {<<"2", "0", "2", "5", "-", "0", "1", "-", "0", "1", "T",
       "0", "0", "-", "0", "0", "-", "0", "0">>,
     <<"2", "0", "2", "5", "-", "0", "1", "-", "0", "1", "T",
       "0", "0", "-", "0", "0", "-", "0", "1">>}

\* a TestRunResult, reduced to the fields the file name is made of
TestRunResult(run_id, ts) == [found |-> TRUE, run_id |-> run_id, timestamp |-> ts]

\* Python's None for a TestRunResult
NoResult == [found |-> FALSE, run_id |-> <<>>, timestamp |-> <<>>]

\* _generate_filename (storage.py:32-39)
GenerateFilename(result) ==
    result.timestamp \o <<"_">> \o Prefix(result.run_id, ShortIdLen)
        \o <<".", "j", "s", "o", "n">>

\* a results directory not yet created; saves counts the save calls, last
\* is the last load call and what it returned
EmptyDisk ==
    [exists |-> TRUE, runs_dir |-> FALSE, runs |-> <<>>, index |-> <<>>,
     trends |-> <<>>, saves |-> 0,
     last |-> [op |-> "none", arg |-> <<>>, ret |-> NoResult]]

\* the files of the runs directory that load may return for run_id: glob
\* yields them in no particular order, and every file written by save
\* validates (loader.py:51-56)
Candidates(d, run_id) ==
    {f \in DOMAIN d.runs : IsSubstring(Prefix(run_id, ShortIdLen), f)}

\* run_path.write_text(result.model_dump_json(...)) (storage.py:53-55): the
\* file of that name is created or overwritten
StoredFile(d, result) ==
    [f \in DOMAIN d.runs \cup {GenerateFilename(result)} |->
        IF f = GenerateFilename(result) THEN result ELSE d.runs[f]]

InitDisk ==
    /\ Elsewhere("disk")
    /\ agent = NoAgent
    /\ su = NoUser
    /\ disk = EmptyDisk

\* ResultStorage.save (storage.py:41-63) with _update_index (65-81) and
\* _update_trends (90-117), all results being of one scenario
Save(run_id, ts) ==
    /\ pc = "disk"
    /\ disk.saves < MaxSaves
    /\ LET result == TestRunResult(run_id, ts)
       IN disk' = [disk EXCEPT
              !.runs_dir = TRUE,
              !.runs = StoredFile(disk, result),
              !.index = Append(@, run_id),
              !.trends = Append(@, run_id),
              !.saves = @ + 1]
    /\ UNCHANGED <<core, agent, su>>

\* ResultLoader.load (loader.py:38-58) finding no file
LoadNone(run_id) ==
    /\ pc = "disk"
    /\ ~disk.runs_dir \/ Candidates(disk, run_id) = {}
    /\ disk' = [disk EXCEPT !.last = [op |-> "load", arg |-> run_id, ret |-> NoResult]]
    /\ UNCHANGED <<core, agent, su>>

\* ResultLoader.load returning the first matching file that glob yields
LoadFound(run_id, f) ==
    /\ pc = "disk"
    /\ disk.runs_dir
    /\ f \in Candidates(disk, run_id)
    /\ disk' = [disk EXCEPT !.last = [op |-> "load", arg |-> run_id, ret |-> disk.runs[f]]]
    /\ UNCHANGED <<core, agent, su>>

NextDisk ==
    \/ \E run_id \in RunIds, ts \in TimestampStrs : Save(run_id, ts)
    \/ \E run_id \in RunIds : LoadNone(run_id)
    \/ \E run_id \in RunIds : \E f \in DOMAIN disk.runs : LoadFound(run_id, f)

SpecDisk == InitDisk /\ [][NextDisk]_vars

----------------------------------------------------------------------------
\* A run whose collaborators always answer: every call that has been issued
\* eventually returns or raises, and the orchestrator's own steps are taken.
\* Whether run is called again is up to the caller

Progress ==
    \/ AgentReset
    \/ \E e \in AgentErrors : AgentResetFails(e)
    \/ SyntheticUserReset
    \/ \E mt \in 1..MaxTurnsBound : RunConversationBegin(mt)
    \/ GetInitialQuery
    \/ \E i \in 1..NumAgentReplies : SendMessage(i)
    \/ \E e \in AgentErrors : SendMessageFails(e)
    \/ \E met \in BOOLEAN : CheckCriteria(met)
    \/ \E e \in JudgeErrors : CheckCriteriaFails(e)
    \/ \E j \in 1..NumUserReplies : Respond(j)
    \/ \E e \in UserErrors : RespondFails(e)
    \/ \E passed \in BOOLEAN : Evaluate(passed)
    \/ EvaluateFails

\* the number of calls of run followed under the fairness condition
MaxFairRuns == 1

NextFair == Next /\ run_no' <= MaxFairRuns

SpecFair == Init /\ [][NextFair]_vars /\ WF_vars(Progress)

----------------------------------------------------------------------------
\* Vocabulary of the properties

\* run() has returned (outcome, judgment) and has not been called again
Completed == pc = "idle" /\ out.kind = "return"

\* run() has raised and has not been called again
Failed == pc = "idle" /\ out.kind = "raise"

\* the ConversationResult has been built by the current run() call
OutcomeBuilt == pc = "evaluate" \/ Completed

TheOutcome == IF pc = "evaluate" THEN conversation_result ELSE out.conversation_result

\* _run_conversation is past the seeding of the initial query
AfterSeed == pc \in {"send", "check", "respond", "evaluate"}

NumCalls(op) == Cardinality({i \in DOMAIN calls : calls[i].op = op})

NumOkCalls(op) == Cardinality({i \in DOMAIN calls : calls[i].op = op /\ calls[i].ok})

NumAssistant(t) == Len(SelectSeq(t, LAMBDA x : x.role = "assistant"))

LastCall == calls[Len(calls)]

\* check_criteria never reported all_criteria_met during this run
NoCriteriaMet ==
    \A i \in DOMAIN calls : calls[i].op = "check_criteria" => calls[i].ret = 0

\* _detect_loop is false of every transcript this run has gone through
NoLoopFired(t) == \A n \in 1..Len(t) : ~DetectLoop(SubSeq(t, 1, n))

\* the sum of tokens_used over the respond calls that returned
RECURSIVE SumRespondTokens(_)
SumRespondTokens(cs) ==
    IF cs = <<>>
    THEN 0
    ELSE SumRespondTokens(Tail(cs))
         + (IF Head(cs).op = "respond" /\ Head(cs).ok THEN Head(cs).ret.tokens_used ELSE 0)

\* the tool_calls of the assistant turns, concatenated in transcript order
RECURSIVE AssistantToolCalls(_)
AssistantToolCalls(t) ==
    IF t = <<>>
    THEN <<>>
    ELSE (IF Head(t).role = "assistant" THEN Head(t).tool_calls ELSE <<>>)
         \o AssistantToolCalls(Tail(t))

\* turns[0] is a user turn and no two adjacent turns have the same role
Alternates(t) ==
    /\ Len(t) >= 1
    /\ t[1].role = "user"
    /\ \A i \in 1..(Len(t) - 1) : t[i].role # t[i + 1].role

\* the value get_initial_query returned to this run
InitialQueryReturned ==
    LET i == CHOOSE k \in DOMAIN calls : calls[k].op = "get_initial_query"
    IN calls[i].ret

----------------------------------------------------------------------------
\* C1: every ConversationResult that _run_conversation builds and run returns
\* carries one termination reason of the enumeration, and it is the one of
\* the exit taken: criteria_met iff the loop was left by the break after
\* check_criteria reported all_criteria_met, loop_detected iff by the break
\* after _detect_loop returned true, max_turns iff by the loop condition.
C1_ReasonMatchesExit ==
    OutcomeBuilt =>
        LET r == TheOutcome.termination_reason
        IN /\ r \in TerminationReason
           /\ exit_path \in {"criteria", "loop", "budget"}
           /\ (r = CRITERIA_MET) <=> (exit_path = "criteria")
           /\ (r = LOOP_DETECTED) <=> (exit_path = "loop")
           /\ (r = MAX_TURNS) <=> (exit_path = "budget")

\* a run that returned after the loop detector fired
C1_Witness ==
    /\ Completed
    /\ exit_path = "loop"
    /\ out.conversation_result.termination_reason = LOOP_DETECTED

\* C2: after the seeding, and in every returned outcome, the first turn is a
\* user turn whose content is what get_initial_query returned, and the roles
\* strictly alternate.
C2_TurnsAlternate ==
    /\ AfterSeed =>
          /\ Alternates(turns)
          /\ turns[1].content = InitialQueryReturned
    /\ Completed =>
          /\ Alternates(out.conversation_result.turns)
          /\ out.conversation_result.turns[1].content = InitialQueryReturned

\* a returned outcome with three user turns and two assistant turns
C2_Witness ==
    /\ Completed
    /\ Len(out.conversation_result.turns) >= 5

\* C3: the number of send_message calls and of assistant turns never exceeds
\* max_turns; a run in which the criteria were never met and the loop
\* detector never fired builds its outcome after exactly max_turns agent
\* turns, with termination_reason = max_turns.
C3_TurnBudget ==
    /\ NumCalls("send_message") <= max_turns
    /\ NumAssistant(turns) <= max_turns
    /\ (OutcomeBuilt /\ NoCriteriaMet /\ NoLoopFired(TheOutcome.turns)) =>
          /\ NumOkCalls("send_message") = max_turns
          /\ NumAssistant(TheOutcome.turns) = max_turns
          /\ TheOutcome.termination_reason = MAX_TURNS

\* a run with the largest budget that used it up
C3_Witness ==
    /\ Completed
    /\ NoCriteriaMet
    /\ NoLoopFired(out.conversation_result.turns)
    /\ max_turns = MaxTurnsBound
    /\ NumAssistant(out.conversation_result.turns) = MaxTurnsBound

C5_TotalTokens ==
    /\ AfterSeed => total_tokens = SumRespondTokens(calls)
    /\ OutcomeBuilt => TheOutcome.total_tokens = SumRespondTokens(calls)

\* a returned outcome that sums two non-zero token counts
C5_Witness ==
    /\ Completed
    /\ NumOkCalls("respond") >= 2
    /\ out.conversation_result.total_tokens >= 2

RecordedDuring(t, atc, r) ==
    /\ \A i \in DOMAIN t :
          /\ t[i].run = r
          /\ \A k \in DOMAIN t[i].tool_calls : t[i].tool_calls[k].run = r
    /\ \A k \in DOMAIN atc : atc[k].run = r

\* C7: from the second run() call on the same orchestrator onwards, the
\* transcript, the flattened tool calls and the token total hold only what the
\* current call produced, and the returned transcript starts with the current
\* call's seeded initial query, however the earlier calls ended.
C7_ResetIsolation ==
    run_no >= 2 =>
        /\ AfterSeed =>
              /\ RecordedDuring(turns, all_tool_calls, run_no)
              /\ total_tokens = SumRespondTokens(calls)
              /\ turns[1] = UserTurn(InitialQueryReturned, run_no)
        /\ Completed =>
              LET cr == out.conversation_result
              IN /\ RecordedDuring(cr.turns, cr.total_tool_calls, run_no)
                 /\ cr.total_tokens = SumRespondTokens(calls)
                 /\ cr.turns[1] = UserTurn(InitialQueryReturned, run_no)

\* a second run that returned a transcript with tool calls and tokens after a
\* first run that failed
C7_Witness ==
    /\ Completed
    /\ run_no = 2
    /\ ended[1] = "raise"
    /\ Len(out.conversation_result.turns) >= 5
    /\ out.conversation_result.total_tool_calls # <<>>
    /\ out.conversation_result.total_tokens >= 1

LoopCalls == {"send_message", "check_criteria", "respond"}

\* C8: a failed send_message, check_criteria or respond call is the last
\* collaborator call of its run (not re-issued, no evaluate after it), run has
\* raised OrchestrationError, and the caller holds neither a
\* ConversationResult nor a JudgmentResult.
C8_LoopFailureIsFatal ==
    \A i \in DOMAIN calls :
        (calls[i].op \in LoopCalls /\ ~calls[i].ok) =>
            /\ i = Len(calls)
            /\ NumCalls("evaluate") = 0
            /\ Failed
            /\ out.exc = "OrchestrationError"
            /\ out.conversation_result = None
            /\ out.judgment_result = NoJudgment

\* respond failed in the second iteration of the loop
C8_Witness ==
    /\ Failed
    /\ calls # <<>>
    /\ LastCall.op = "respond"
    /\ ~LastCall.ok
    /\ NumOkCalls("respond") = 1

\* judge.evaluate has failed in the run() call that just ended
EvaluateFailed ==
    /\ calls # <<>>
    /\ LastCall.op = "evaluate"
    /\ ~LastCall.ok

C10_ResetFirst ==
    /\ \A i \in DOMAIN calls :
          calls[i].op \in {"get_initial_query", "send_message"} =>
              /\ i >= 3
              /\ calls[1] = Call("agent.reset", TRUE, 0, 0)
              /\ calls[2] = Call("user.reset", TRUE, 0, 0)
    /\ pc \in {"begin", "seed", "send"} =>
          /\ NumOkCalls("agent.reset") = 1
          /\ NumOkCalls("user.reset") = 1

\* the second run() call on the orchestrator has sent its first message
C10_Witness ==
    /\ run_no = 2
    /\ NumCalls("send_message") = 1
    /\ calls[1].op = "agent.reset"
    /\ calls[2].op = "user.reset"

----------------------------------------------------------------------------
\* the turns appended so far by the current run are those of the current
\* _run_conversation call
LocalsCurrent == NumOkCalls("get_initial_query") = 1

\* the number of send_message calls that returned among the first n calls
OkSendsUpTo(n) ==
    Cardinality({i \in 1..n : calls[i].op = "send_message" /\ calls[i].ok})

\* C11: the judge's criteria check is called exactly once after every agent
\* turn: every send_message that returned is followed, as the very next
\* collaborator call, by check_criteria (or the run is about to make that
\* call); every check_criteria call directly follows a send_message that
\* returned; its argument is the whole transcript so far, ending with the
\* assistant turn just appended; and in a completed run the number of
\* check_criteria calls equals the number of assistant turns.
C11_CheckAfterEveryAgentTurn ==
    /\ \A i \in DOMAIN calls :
          (calls[i].op = "send_message" /\ calls[i].ok) =>
              IF i = Len(calls)
              THEN pc = "check"
              ELSE calls[i + 1].op = "check_criteria"
    /\ \A i \in DOMAIN calls :
          calls[i].op = "check_criteria" =>
              /\ i > 1
              /\ calls[i - 1].op = "send_message" /\ calls[i - 1].ok
              /\ Len(calls[i].arg) = 2 * OkSendsUpTo(i)
              /\ calls[i].arg[Len(calls[i].arg)].role = "assistant"
              /\ calls[i].arg[Len(calls[i].arg)].content = calls[i - 1].ret
              /\ LocalsCurrent =>
                    calls[i].arg = SubSeq(turns, 1, Len(calls[i].arg))
              /\ (i = Len(calls) /\ LocalsCurrent) => calls[i].arg = turns
    /\ Completed =>
          NumCalls("check_criteria") = NumAssistant(out.conversation_result.turns)

\* a completed run in which the criteria check ran three times
C11_Witness ==
    /\ Completed
    /\ NumCalls("check_criteria") = 3
    /\ NumAssistant(out.conversation_result.turns) = 3

----------------------------------------------------------------------------
\* C12: the final evaluation is called exactly once per run, only after the
\* loop has ended and the ConversationResult has been built, and with that
\* same result: an evaluate call is always the last call of its run and is
\* alone, it never happens while the loop is running, its argument is the
\* ConversationResult that _run_conversation built (the one run returns),
\* and a run that returned has made exactly one.
C12_EvaluateOnceAfterLoop ==
    /\ NumCalls("evaluate") <= 1
    /\ \A i \in DOMAIN calls :
          calls[i].op = "evaluate" =>
              /\ i = Len(calls)
              /\ pc = "idle"
              /\ calls[i].arg = conversation_result
              /\ calls[i].arg # None
              /\ calls[i].arg.turns = turns
              /\ calls[i].ok => out.conversation_result = calls[i].arg
    /\ pc \in {"reset_agent", "reset_user", "begin", "seed", "send", "check",
               "respond", "evaluate"} => NumCalls("evaluate") = 0
    /\ pc = "evaluate" => conversation_result # None
    /\ Completed => NumOkCalls("evaluate") = 1

\* a run ended by the loop detector was evaluated and returned
C12_Witness ==
    /\ Completed
    /\ NumCalls("evaluate") = 1
    /\ LastCall.arg.termination_reason = LOOP_DETECTED
    /\ out.conversation_result = LastCall.arg

----------------------------------------------------------------------------
\* the positions of the check_criteria calls that reported every criterion met
MetChecks ==
    {i \in DOMAIN calls :
        calls[i].op = "check_criteria" /\ calls[i].ok /\ calls[i].ret = 1}

\* C13: when the criteria check after the k-th agent turn reports every
\* criterion met, the conversation ends at once: no respond and no
\* send_message follows (only the final evaluation may), the termination
\* reason is criteria_met, final_answer is the k-th agent reply, and the
\* transcript has exactly 2k turns and ends with that assistant turn.
C13_CriteriaMetEndsAtOnce ==
    \A i \in MetChecks :
        LET k == OkSendsUpTo(i)
        IN /\ \A n \in (i + 1)..Len(calls) : calls[n].op = "evaluate"
           /\ pc \in {"evaluate", "idle"}
           /\ conversation_result.termination_reason = CRITERIA_MET
           /\ termination_reason = CRITERIA_MET
           /\ conversation_result.final_answer = calls[i - 1].ret
           /\ Len(conversation_result.turns) = 2 * k
           /\ conversation_result.turns = turns
           /\ turns[2 * k].role = "assistant"
           /\ turns[2 * k].content = calls[i - 1].ret
           /\ Completed => out.conversation_result = conversation_result

\* the criteria were met after the second agent turn of a run with a budget
\* of three, and the run returned four turns
C13_Witness ==
    /\ Completed
    /\ max_turns = 3
    /\ \E i \in MetChecks : OkSendsUpTo(i) = 2
    /\ Len(out.conversation_result.turns) = 4
    /\ out.conversation_result.final_answer = 2

----------------------------------------------------------------------------
\* the last call made by the loop (the final evaluation left aside)
LastLoopCall == calls[Len(calls) - NumCalls("evaluate")]

\* the loop ended because the turn budget was used up: max_turns agent
\* replies were received, the last of them was answered by the synthetic
\* user, and neither the criteria check nor the loop detector ended it
BudgetExhausted ==
    /\ LocalsCurrent
    /\ NumOkCalls("send_message") = max_turns
    /\ LastLoopCall.op = "respond" /\ LastLoopCall.ok
    /\ ~DetectLoop(turns)

\* C14: running out of turns is a normal completion and not an error: the
\* result is built with termination reason max_turns and with final_answer
\* the content of the max_turns-th (the last) assistant turn, no
\* OrchestrationError is raised, and the final evaluation is still called.
C14_BudgetExitIsNormal ==
    BudgetExhausted =>
        /\ pc \in {"evaluate", "idle"}
        /\ conversation_result.termination_reason = MAX_TURNS
        /\ conversation_result.turns = turns
        /\ Len(turns) = 2 * max_turns + 1
        /\ turns[2 * max_turns].role = "assistant"
        /\ conversation_result.final_answer = turns[2 * max_turns].content
        /\ NumAssistant(turns) = max_turns
        /\ pc = "idle" =>
              /\ NumCalls("evaluate") = 1
              /\ out.exc # "OrchestrationError"
              /\ LastCall.ok => Completed /\ out.conversation_result = conversation_result

\* a run with a budget of two used it up and returned the second agent reply
\* as its final answer
C14_Witness ==
    /\ BudgetExhausted
    /\ Completed
    /\ max_turns = 2
    /\ out.conversation_result.termination_reason = MAX_TURNS
    /\ out.conversation_result.final_answer = 2
    /\ turns[2].content = 1

----------------------------------------------------------------------------
\* the positions of the user-role turns of a transcript
UserIdx(t) == {i \in DOMAIN t : t[i].role = "user"}

\* the last three user-role turns of t exist and have the same content
LastThreeUsersIdentical(t) ==
    LET U == UserIdx(t)
        Last(S) == CHOOSE i \in S : \A n \in S : n <= i
    IN /\ Cardinality(U) >= 3
       /\ LET c == Last(U)
              b == Last(U \ {c})
              a == Last(U \ {b, c})
          IN /\ t[a].content = t[b].content
             /\ t[b].content = t[c].content

\* the reply returned by the last send_message call that returned
LastAgentReply ==
    LET sends == {i \in DOMAIN calls : calls[i].op = "send_message" /\ calls[i].ok}
        last == CHOOSE i \in sends : \A n \in sends : n <= i
    IN calls[last].ret

\* C15: when, right after a synthetic-user reply, the last three user
\* messages of the transcript are identical, the conversation ends with
\* reason loop_detected, final_answer is the last agent reply, and no
\* further send_message is made, even when the turn budget is not used up;
\* conversely a result with reason loop_detected has its last three user
\* turns identical.
C15_LoopDetectedExit ==
    /\ (/\ LocalsCurrent
        /\ LastLoopCall.op = "respond" /\ LastLoopCall.ok
        /\ LastThreeUsersIdentical(turns)) =>
          /\ pc \in {"evaluate", "idle"}
          /\ conversation_result.termination_reason = LOOP_DETECTED
          /\ conversation_result.final_answer = LastAgentReply
          /\ conversation_result.turns = turns
          /\ NumOkCalls("send_message") = NumOkCalls("respond")
    /\ (OutcomeBuilt /\ TheOutcome.termination_reason = LOOP_DETECTED) =>
          /\ LastThreeUsersIdentical(TheOutcome.turns)
          /\ LastLoopCall.op = "respond" /\ LastLoopCall.ok

\* the loop detector ended a run after two of the three turns it was allowed
C15_Witness ==
    /\ Completed
    /\ out.conversation_result.termination_reason = LOOP_DETECTED
    /\ max_turns = 3
    /\ turn_count = 2
    /\ NumOkCalls("send_message") = 2
    /\ out.conversation_result.final_answer = LastAgentReply

----------------------------------------------------------------------------
\* the positions of the assistant-role turns of a transcript
AssistantIdx(t) == {i \in DOMAIN t : t[i].role = "assistant"}

\* C16: in every result that is built, whatever the termination reason and
\* whatever max_turns >= 1, final_answer is the content of the last
\* assistant-role turn of the transcript, also when the transcript ends on
\* a user turn.
C16_FinalAnswerIsLastAssistant ==
    OutcomeBuilt =>
        LET r == TheOutcome
        IN /\ AssistantIdx(r.turns) # {}
           /\ \E i \in AssistantIdx(r.turns) :
                 /\ \A n \in AssistantIdx(r.turns) : n <= i
                 /\ r.final_answer = r.turns[i].content
           /\ r.termination_reason \in {CRITERIA_MET, MAX_TURNS, LOOP_DETECTED}

\* a result built after three rounds whose transcript ends on a user turn and
\* whose first and last agent replies differ
C16_Witness ==
    /\ pc = "evaluate"
    /\ conversation_result.termination_reason = MAX_TURNS
    /\ Len(conversation_result.turns) = 7
    /\ conversation_result.turns[7].role = "user"
    /\ conversation_result.turns[2].content # conversation_result.turns[6].content
    /\ conversation_result.final_answer = conversation_result.turns[6].content

----------------------------------------------------------------------------
\* s is t with zero or more elements added at its end
IsPrefix(t, s) == Len(t) <= Len(s) /\ SubSeq(s, 1, Len(t)) = t

\* C17: during a run the turn list is append-only: a step of the run leaves
\* it unchanged or adds exactly one turn at its end, so the list at any
\* earlier moment is a prefix of the list later on; only the start of a new
\* _run_conversation call creates a new, empty list; and the turns of the
\* ConversationResult that is built, and of the one that is returned, are
\* the list as it stands then.
C17_TurnsAppendOnly ==
    [][/\ pc # "begin" =>
            /\ IsPrefix(turns, turns')
            /\ Len(turns') <= Len(turns) + 1
       /\ pc = "begin" => turns' = <<>>
       /\ conversation_result' # conversation_result /\ pc # "begin" =>
            /\ conversation_result'.turns = turns'
            /\ IsPrefix(turns, conversation_result'.turns)
       /\ out'.kind = "return" =>
            /\ out'.conversation_result.turns = turns'
            /\ IsPrefix(turns, out'.conversation_result.turns)]_vars

\* a run has returned a transcript of seven turns, grown one turn at a time
C17_Witness ==
    /\ Completed
    /\ Len(turns) = 7
    /\ out.conversation_result.turns = turns
    /\ \A i \in DOMAIN calls :
          calls[i].op = "check_criteria" => IsPrefix(calls[i].arg, turns)

----------------------------------------------------------------------------
\* C18: within one conversation at most one collaborator call is in flight
\* at any time: the next call is issued only after the previous one has
\* returned or raised (the call in flight is never the one that finished
\* last), and none is in flight once run has returned or raised.
C18_OneCallInFlight ==
    /\ Cardinality(inflight) <= 1
    /\ pc = "idle" => inflight = {}
    /\ \A op \in inflight :
          \/ calls = <<>>
          \/ LastCall.op # op

\* the synthetic user is being asked for the second time, every earlier call
\* having returned
C18_Witness ==
    /\ inflight = {"respond"}
    /\ NumOkCalls("respond") = 1
    /\ NumOkCalls("send_message") = 2
    /\ NumOkCalls("check_criteria") = 2

----------------------------------------------------------------------------
\* C20 as stated: no reference to the mutable turn list or to the running
\* token total is handed to any other component before run returns (every
\* logged call was made before run returned).
C20_NothingHandedOut ==
    \A i \in DOMAIN calls : calls[i].refs = {}

\* C20, amended: the turn list and the token total are created and written
\* by the orchestrator alone; the running token total is handed to no
\* collaborator, and the agent and the synthetic user receive message
\* contents only; but the turn list itself, not a copy, is handed to the
\* judge's check_criteria after every agent turn, mid-run, and to no other
\* call.
C20_OnlyCriteriaCheckSeesTurns ==
    \A i \in DOMAIN calls :
        /\ "total_tokens" \notin calls[i].refs
        /\ calls[i].refs = IF calls[i].op = "check_criteria" THEN {"turns"} ELSE {}
        /\ calls[i].op = "send_message" =>
              \E n \in UserIdx(turns) : calls[i].arg = turns[n].content
        /\ calls[i].op = "respond" =>
              \E n \in AssistantIdx(turns) : calls[i].arg = turns[n].content
        /\ calls[i].op \in {"agent.reset", "user.reset", "get_initial_query"} =>
              calls[i].arg = 0

\* mid-run, with tokens already counted, the judge has just been handed the
\* turn list and the conversation goes on
C20_Witness ==
    /\ pc = "respond"
    /\ total_tokens > 0
    /\ LastCall.op = "check_criteria"
    /\ LastCall.refs = {"turns"}
    /\ LastCall.arg = turns
    /\ Len(turns) = 4

----------------------------------------------------------------------------
----------------------------------------------------------------------------
\* what reset is about in a SimpleLLMAgent: its prompt and its history
AgentState(a) == <<a.system_prompt, a.history>>

\* C21: the reset of SimpleLLMAgent is idempotent and safe before any
\* message: after any sequence of send_message calls, returned or raised,
\* reset leaves the history equal to the just-constructed one (empty, or
\* the system prompt alone); reset twice gives the same state as reset
\* once; and reset on a fresh agent changes nothing.
C21_AgentResetIdempotent ==
    pc = "agent" =>
        /\ agent.last = "reset" =>
              AgentState(agent) = AgentState(SimpleLLMAgent(agent.system_prompt))
        /\ AgentState(SimpleReset(SimpleReset(agent))) = AgentState(SimpleReset(agent))
        /\ AgentState(SimpleReset(agent)) = AgentState(SimpleLLMAgent(agent.system_prompt))
        /\ agent.last = "init" => AgentState(SimpleReset(agent)) = AgentState(agent)

\* an agent with a system prompt was reset after two send_message calls, one
\* of which raised
C21_Witness ==
    /\ pc = "agent"
    /\ agent.last = "reset"
    /\ agent.sends = 2
    /\ agent.fails = 1
    /\ agent.system_prompt = 1
    /\ agent.history = <<Message("system", 1)>>

----------------------------------------------------------------------------
\* the reply the unit tests expect to an empty agent message
\* (tests/unit/test_synthetic_user.py:146)
RetryMessage == <<"I didn't receive a response. Could you try again?">>

\* usage.get(key, 0)
UsageGet(usage, key) == IF key \in DOMAIN usage THEN usage[key] ELSE 0

\* the last call on the synthetic user was a respond
Responded == pc = "user" /\ su.last.op = "respond"

\* C22: respond called with an empty or whitespace-only agent message
\* returns the fixed message "I didn't receive a response. Could you try
\* again?" with tokens_used = 0 and does not call the LLM provider at all.
C22_EmptyMessageAsksForRetry ==
    (Responded /\ Strip(su.last.arg) = <<>>) =>
        /\ ~su.last.raised
        /\ su.last.message = RetryMessage
        /\ su.last.tokens_used = 0
        /\ su.last.generate_calls = 0

\* C23: respond returns tokens_used equal to prompt_tokens plus
\* completion_tokens of the LLM response that produced the reply, a missing
\* usage key counting as 0.
C23_TokensFromUsage ==
    (Responded /\ ~su.last.raised) =>
        su.last.tokens_used = UsageGet(su.last.usage, "prompt_tokens")
                              + UsageGet(su.last.usage, "completion_tokens")

\* C24: reset returns the synthetic user to its just-constructed state after
\* any sequence of respond calls, returned or raised: the history is exactly
\* the system-prompt message, questions_asked is 0 and the last recorded
\* token count (_last_tokens_used) is 0; reset twice equals reset once.
C24_UserResetRestoresConstruction ==
    (pc = "user" /\ su.last.op = "reset") =>
        /\ su.self["_conversation_history"] = <<Message("system", SystemPromptText)>>
        /\ su.self["_questions_asked"] = 0
        /\ UserReset(UserReset(su.self)) = UserReset(su.self)
        /\ "_last_tokens_used" \in DOMAIN su.self
        /\ su.self["_last_tokens_used"] = 0

----------------------------------------------------------------------------
\* the run ids of the results saved so far
SavedIds == {disk.index[i] : i \in DOMAIN disk.index}

\* C25: after any sequence of save calls, load(run_id) for the run_id of a
\* saved result returns a stored result whose run_id is the requested one,
\* and load returns None for a run_id that was never saved.
C25_LoadReturnsRequestedRun ==
    (pc = "disk" /\ disk.last.op = "load") =>
        IF disk.last.arg \in SavedIds
        THEN disk.last.ret.found /\ disk.last.ret.run_id = disk.last.arg
        ELSE disk.last.ret = NoResult

----------------------------------------------------------------------------
\* the positions in the call history of the send_message calls and of the
\* respond calls that returned, and the n-th of a set of positions
SendIdx == {i \in DOMAIN calls : calls[i].op = "send_message"}
RespondIdx == {i \in DOMAIN calls : calls[i].op = "respond" /\ calls[i].ok}
Nth(S, n) == CHOOSE i \in S : Cardinality({m \in S : m <= i}) = n

\* C26: messages are relayed unchanged and in order: the text passed to the
\* k-th send_message is the content of the most recent user turn, that is
\* the initial query for k = 1 and otherwise the message returned by the
\* (k-1)-th respond call; the text passed to each respond call is the reply
\* returned by the send_message call of the same iteration; and the content
\* of each appended turn is the message that was relayed.
C26_MessagesRelayedInOrder ==
    LocalsCurrent =>
        /\ \A k \in 1..Cardinality(SendIdx) :
              LET c == calls[Nth(SendIdx, k)]
              IN /\ c.arg = turns[2 * k - 1].content
                 /\ turns[2 * k - 1].role = "user"
                 /\ c.arg = IF k = 1
                            THEN InitialQueryReturned
                            ELSE calls[Nth(RespondIdx, k - 1)].ret.message
                 /\ c.ok => /\ turns[2 * k].role = "assistant"
                            /\ turns[2 * k].content = c.ret
        /\ \A k \in 1..Cardinality(RespondIdx) :
              LET c == calls[Nth(RespondIdx, k)]
              IN /\ c.arg = calls[Nth(SendIdx, k)].ret
                 /\ c.arg = turns[2 * k].content
                 /\ turns[2 * k + 1].content = c.ret.message
        /\ \A i \in DOMAIN calls :
              calls[i].op = "respond" => calls[i].arg = calls[i - 2].ret

\* three agent replies and two user replies were relayed, not all alike
C26_Witness ==
    /\ LocalsCurrent
    /\ Cardinality(SendIdx) = 3
    /\ Cardinality(RespondIdx) = 2
    /\ calls[Nth(SendIdx, 2)].arg = 2
    /\ calls[Nth(SendIdx, 3)].arg = 1
    /\ calls[Nth(RespondIdx, 1)].arg = 1
    /\ calls[Nth(RespondIdx, 2)].arg = 2
    /\ LastCall.op = "send_message" /\ LastCall.ok

----------------------------------------------------------------------------
\* after some synthetic-user reply of this run the last three user messages
\* were identical
LoopSeenOnSomeIteration ==
    \E n \in 1..Len(turns) :
        turns[n].role = "user" /\ n > 1 /\ LastThreeUsersIdentical(SubSeq(turns, 1, n))

\* C27: the termination reasons have a fixed precedence: the criteria check
\* comes before the loop check and the loop check before the budget check.
\* On the iteration where the turn counter equals max_turns the result
\* reports criteria_met if the criteria were met, loop_detected (not
\* max_turns) if the user reply made the last three user messages
\* identical, and max_turns only when neither happened on any iteration.
C27_ReasonPrecedence ==
    (pc = "evaluate" \/ (Completed /\ LocalsCurrent)) =>
        LET reason == conversation_result.termination_reason
        IN /\ turn_count = max_turns =>
                 reason = IF MetChecks # {}
                          THEN CRITERIA_MET
                          ELSE IF LastThreeUsersIdentical(turns)
                               THEN LOOP_DETECTED
                               ELSE MAX_TURNS
           /\ reason = MAX_TURNS <=> (MetChecks = {} /\ ~LoopSeenOnSomeIteration)
           /\ reason = MAX_TURNS => turn_count = max_turns

\* on the last iteration the budget allows, the user reply closed a loop and
\* the result says loop_detected
C27_Witness ==
    /\ pc = "evaluate"
    /\ turn_count = max_turns
    /\ max_turns = 2
    /\ MetChecks = {}
    /\ LastThreeUsersIdentical(turns)
    /\ conversation_result.termination_reason = LOOP_DETECTED

----------------------------------------------------------------------------
\* run has been called and has neither returned nor raised
Running == pc # "idle"

\* the calls made so far by the current run stay within the budget
CallsWithinBudget ==
    /\ LocalsCurrent =>
          /\ NumCalls("send_message") <= max_turns
          /\ NumCalls("check_criteria") <= max_turns
          /\ NumCalls("respond") <= max_turns
    /\ ~LocalsCurrent => \A i \in DOMAIN calls : calls[i].op \notin LoopCalls
    /\ NumCalls("evaluate") <= 1

\* C28: every run terminates provided each collaborator call eventually
\* returns or fails: whatever max_turns >= 1 and whatever the collaborators
\* answer, a run that was started eventually returns or raises, after at
\* most max_turns send_message calls, at most max_turns check_criteria
\* calls, at most max_turns respond calls and at most one evaluate call.
C28_RunTerminates ==
    /\ [](CallsWithinBudget)
    /\ Running ~> ~Running

\* a run has returned after using its whole budget of three rounds
C28_Witness ==
    /\ Completed
    /\ max_turns = 3
    /\ NumCalls("send_message") = 3
    /\ NumCalls("check_criteria") = 3
    /\ NumCalls("respond") = 3
    /\ NumCalls("evaluate") = 1

----------------------------------------------------------------------------
\* C29: the minimum-turn gate of the loop detector (fewer than 4 turns
\* returns false) never changes the result on a transcript the orchestrator
\* can reach: every reachable transcript with at least 3 user turns has at
\* least 5 turns, so on the transcript of every loop check _detect_loop
\* returns exactly what the check "at least 3 user messages and the last 3
\* identical" returns.
C29_MinTurnGateIsRedundant ==
    /\ Cardinality(UserIdx(turns)) >= loop_detection_window => Len(turns) >= 5
    /\ DetectLoop(turns) <=> LastThreeUsersIdentical(turns)

\* the loop check has just run on the shortest transcript with three user
\* turns, all identical, and has answered true
C29_Witness ==
    /\ pc = "evaluate"
    /\ LastCall.op = "respond"
    /\ Len(turns) = 5
    /\ Cardinality(UserIdx(turns)) = 3
    /\ LastThreeUsersIdentical(turns)
    /\ DetectLoop(turns)

----------------------------------------------------------------------------
\* C30: the shape of the returned transcript is determined by the
\* termination reason. criteria_met after k agent turns gives 2k turns ending
\* with an assistant turn; max_turns gives exactly 2 * max_turns + 1 turns
\* ending with a user turn, the reply to the last agent message, which is
\* recorded and whose tokens are counted although it is never sent to the
\* agent; loop_detected gives an odd number of turns, at least 5, ending
\* with a user turn, so it is unreachable when max_turns = 1.
C30_ShapeByReason ==
    (pc = "evaluate" \/ (Completed /\ LocalsCurrent)) =>
        LET reason == TheOutcome.termination_reason
            t == TheOutcome.turns
            k == NumOkCalls("send_message")
        IN /\ reason = CRITERIA_MET =>
                 /\ Len(t) = 2 * k
                 /\ t[Len(t)].role = "assistant"
           /\ reason = MAX_TURNS =>
                 /\ Len(t) = 2 * max_turns + 1
                 /\ t[Len(t)].role = "user"
                 /\ LastLoopCall.op = "respond" /\ LastLoopCall.ok
                 /\ LastLoopCall.arg = LastAgentReply
                 /\ t[Len(t)].content = LastLoopCall.ret.message
                 /\ NumOkCalls("respond") = k
                 /\ TheOutcome.total_tokens = SumRespondTokens(calls)
           /\ reason = LOOP_DETECTED =>
                 /\ Len(t) % 2 = 1
                 /\ Len(t) >= 5
                 /\ t[Len(t)].role = "user"
                 /\ max_turns > 1

\* a run with a budget of two rounds has returned for max_turns with five
\* turns, the last one the reply to the second agent message
C30_Witness ==
    /\ Completed /\ LocalsCurrent
    /\ out.conversation_result.termination_reason = MAX_TURNS
    /\ max_turns = 2
    /\ Len(out.conversation_result.turns) = 5
    /\ out.conversation_result.turns[5].role = "user"
    /\ NumOkCalls("respond") = 2

====
